---- MODULE Spec2Model ----
(***************************************************************************)
(* Listing / review store of the travel-listings backend.                  *)
(*                                                                         *)
(* State: the Listing and Review tables, the set of user accounts, the     *)
(* Category table, and the outcome of the last request.  One action per    *)
(* HTTP handler (listings/views.py) and per model-level operation          *)
(* (listings/models.py).  Decimal ratings are kept in hundredths           *)
(* (rating 3.00 is 300), which is the scale of Listing.rating              *)
(* (decimal_places=2).                                                     *)
(*                                                                         *)
(* Spec     : every request runs alone (one handler, start to end).        *)
(* SpecConc : requests for one listing (review submissions, PUT/PATCH,     *)
(*            DELETE) interleave at the granularity of their database      *)
(*            statements (autocommit, no transaction or row lock).         *)
(***************************************************************************)
EXTENDS Integers, FiniteSets, Sequences, TLC

\* ---------------------------------------------------------------- bounds
\* user accounts, listings ever created, operations in one behaviour,
\* requests in flight at once
MaxUsers == 2
MaxListings == 2
MaxOps == 3
MaxRequests == 2

\* ---------------------------------------------------- program constants
MIN_RATING == 1
MAX_RATING == 5
DEFAULT_MINIMUM_NIGHTS == 1
DEFAULT_MAXIMUM_NIGHTS == 365
VALIDATE_DEFAULT_MINIMUM == 1

Users == 1..MaxUsers
Requests == 1..MaxRequests
ListingIds == 1..MaxListings
\* the names POST /categories/ is called with
CategoryNames == {"beach"}

\* request.user of an unauthenticated request
Anonymous == 0
\* a key that is not in the request data
Absent == -1
\* last.listing of a request that addresses no listing
NoListing == 0

\* what a request may carry for minimum_nights / maximum_nights: nothing,
\* or a positive integer (JSON number)
NightsInputs == {Absent, 1, 2}
\* Review.rating validators: MinValueValidator(1), MaxValueValidator(5)
ValidRatings == MIN_RATING..MAX_RATING
\* the ratings requests are drawn from: two valid ones, and the two
\* nearest invalid ones
SampleRatings == {2, 4}
RatingInputs == SampleRatings \cup {MIN_RATING - 1, MAX_RATING + 1}

VARIABLES
    users,           \* existing user accounts
    listings,        \* Listing table: id -> row
    next_listing_id, \* stands for the fresh uuid4 of the next Listing
    reviews,         \* Review table: set of rows
    next_review_id,  \* auto-increment primary key of Review
    categories,      \* Category table: set of (unique) names
    last,            \* the last operation and its outcome
    ops,             \* number of operations performed
    pc,              \* SpecConc: position of each request in its handler
    local            \* SpecConc: what each request carries and has read so far

vars == <<users, listings, next_listing_id, reviews, next_review_id,
          categories, last, ops, pc, local>>

store == <<users, listings, next_listing_id, reviews, next_review_id, categories>>

\* ------------------------------------------------------ pure functions

RECURSIVE SumRatings(_)
SumRatings(revs) ==
    IF revs = {} THEN 0
    ELSE LET r == CHOOSE x \in revs : TRUE
         IN r.rating + SumRatings(revs \ {r})

\* listing.reviews (related_name='reviews')
ReviewsOf(revs, l) == {r \in revs : r.listing = l}

\* self.reviews.aggregate(Avg('rating'))['rating__avg'] as the exact
\* fraction sum/n; n = 0 stands for None (no rows)
AvgRating(revs, l) ==
    [sum |-> SumRatings(ReviewsOf(revs, l)), n |-> Cardinality(ReviewsOf(revs, l))]

\* self.reviews.count()
CountReviews(revs, l) == Cardinality(ReviewsOf(revs, l))

\* `if avg_rating:` -- None and 0.0 are falsy
Truthy(avg) == avg.n > 0 /\ avg.sum > 0

\* The aggregate is a binary double: the fraction p/q rounded to a 53-bit
\* significand (round to nearest, ties to even).  ScaleUp / ScaleDown bring
\* p/q into [1, 2); MantissaTail is the long division that produces the 52
\* fraction bits and returns <<remainder, last bit>>.
RECURSIVE ScaleUp(_, _)
ScaleUp(p, q) == IF p < q THEN ScaleUp(2 * p, q) ELSE p

RECURSIVE ScaleDown(_, _)
ScaleDown(p, q) == IF p >= 2 * q THEN ScaleDown(p, 2 * q) ELSE q

RECURSIVE MantissaTail(_, _, _, _)
MantissaTail(rem, bit, q, i) ==
    IF i = 0 THEN <<rem, bit>>
    ELSE IF 2 * rem >= q
         THEN MantissaTail(2 * rem - q, 1, q, i - 1)
         ELSE MantissaTail(2 * rem, 0, q, i - 1)

\* where the double nearest to sum/n lies: -1 below sum/n, 0 on it, 1 above
DoubleSide(avg) ==
    LET p == ScaleUp(avg.sum, avg.n)
        q == ScaleDown(p, avg.n)
        t == MantissaTail(p - q, 1, q, 52)
    IN  IF t[1] = 0 THEN 0
        ELSE IF 2 * t[1] < q THEN -1
        ELSE IF 2 * t[1] > q THEN 1
        ELSE IF t[2] = 0 THEN -1 ELSE 1

\* round(avg_rating, 2) in hundredths.  Python rounds the double correctly:
\* to the hundredth nearest to the double's exact value, and to the even
\* one only when the double is exactly half way.  When sum/n is half way
\* between two hundredths, the side the double lies on decides
\* (43/40 = 1.075 is stored just below and gives 1.07).
Round2(avg) ==
    LET q == (100 * avg.sum) \div avg.n
        r == (100 * avg.sum) % avg.n
    IN  IF 2 * r < avg.n THEN q
        ELSE IF 2 * r > avg.n THEN q + 1
        ELSE IF DoubleSide(avg) < 0 THEN q
        ELSE IF DoubleSide(avg) > 0 THEN q + 1
        ELSE IF q % 2 = 0 THEN q ELSE q + 1

\* self.rating = ...; self.total_reviews = ...;
\* self.save(update_fields=['rating', 'total_reviews'])
SaveRating(ls, l, rating, total) ==
    [ls EXCEPT ![l].rating = rating, ![l].total_reviews = total]

update_rating_keeps_count(ls, revs, l) ==
    IF Truthy(AvgRating(revs, l))
    THEN SaveRating(ls, l, Round2(AvgRating(revs, l)), ls[l].total_reviews)
    ELSE ls

\* Listing.update_rating
update_rating(ls, revs, l) ==
    IF Truthy(AvgRating(revs, l))
    THEN SaveRating(ls, l, Round2(AvgRating(revs, l)), CountReviews(revs, l))
    ELSE ls

unique_together_off(revs, l, u) == FALSE

\* Review.Meta.unique_together = ['listing', 'reviewer']: the INSERT of a
\* second row for the pair raises IntegrityError
unique_together(revs, l, u) ==
    \E r \in revs : r.listing = l /\ r.reviewer = u

\* super().save() of a new Review: the INSERT
InsertReview(revs, id, l, u, rating) ==
    revs \cup {[id |-> id, listing |-> l, reviewer |-> u, rating |-> rating]}

\* super().save() of an existing Review: the UPDATE
UpdateReview(revs, r, rating) ==
    (revs \ {r}) \cup {[r EXCEPT !.rating = rating]}

\* Listing.objects.filter(is_active=True)
ActiveQueryset(ls) == {l \in DOMAIN ls : ls[l].is_active}

\* GET /listings/ (no filter parameters)
ListView(ls) == ActiveQueryset(ls)

\* GET /listings/{id}/
DetailView(ls, l) == IF l \in ActiveQueryset(ls) THEN "OK" ELSE "NotFound"

\* GET /listings/{id}/reviews/
ReviewListView(revs, l) == {r \in revs : r.listing = l}

\* ListingCreateUpdateSerializer.validate_maximum_nights, run only when
\* maximum_nights is in the request data
MaximumNightsValid(minN, maxN) ==
    IF maxN = Absent THEN TRUE
    ELSE LET minimum_nights == IF minN = Absent THEN VALIDATE_DEFAULT_MINIMUM ELSE minN
         IN  ~(maxN < minimum_nights)

\* the row a valid POST /listings/ stores
NewListing(actor, minN, maxN) ==
    [host |-> actor,
     is_active |-> TRUE,
     minimum_nights |-> IF minN = Absent THEN DEFAULT_MINIMUM_NIGHTS ELSE minN,
     maximum_nights |-> IF maxN = Absent THEN DEFAULT_MAXIMUM_NIGHTS ELSE maxN,
     rating |-> 0,
     total_reviews |-> 0]

\* serializer.save() of an update: the supplied fields are set on the
\* instance, which is then saved as a whole row
ApplyUpdate(row, minN, maxN) ==
    [row EXCEPT !.minimum_nights = IF minN = Absent THEN @ ELSE minN,
                !.maximum_nights = IF maxN = Absent THEN @ ELSE maxN]

update_host_check_off(ls, l, actor) == FALSE

\* perform_update: self.get_object().host != self.request.user
UpdateNotHost(ls, l, actor) == ls[l].host # actor

\* perform_destroy: instance.host != self.request.user
DestroyNotHost(ls, l, actor) == ls[l].host # actor

HardDelete(ls, l) == [x \in DOMAIN ls \ {l} |-> ls[x]]

\* perform_destroy: instance.is_active = False; instance.save()
SoftDelete(ls, l) == [ls EXCEPT ![l].is_active = FALSE]

\* what a request holds before it has read anything
NoRow == [host |-> Anonymous, is_active |-> FALSE,
          minimum_nights |-> DEFAULT_MINIMUM_NIGHTS,
          maximum_nights |-> DEFAULT_MAXIMUM_NIGHTS,
          rating |-> 0, total_reviews |-> 0]

NoRequest == [kind |-> "none", actor |-> Anonymous, resp |-> "none",
              name |-> "none",
              minN |-> Absent, maxN |-> Absent, row |-> NoRow,
              avg |-> [sum |-> 0, n |-> 0], count |-> 0]

Outcome(op, actor, l, resp) == [op |-> op, actor |-> actor, listing |-> l, resp |-> resp]

\* ------------------------------------------------------------- Init

IdleConc == /\ pc = [k \in Requests |-> "idle"]
            /\ local = [k \in Requests |-> NoRequest]

Init ==
    /\ users = Users
    /\ listings = << >>
    /\ next_listing_id = 1
    /\ reviews = {}
    /\ next_review_id = 1
    /\ categories = {}
    /\ last = Outcome("none", Anonymous, NoListing, "none")
    /\ ops = 0
    /\ IdleConc

Step == /\ ops < MaxOps
        /\ ops' = ops + 1
        /\ UNCHANGED <<pc, local>>

Fail(op, actor, l, resp) ==
    /\ last' = Outcome(op, actor, l, resp)
    /\ UNCHANGED store

\* ---------------------------------------------------------- handlers

\* Category.name is unique=True: a row with this name exists. The
\* serializer's UniqueValidator and the table's unique constraint both ask it.
unique_name(cats, name) == name \in cats

\* POST /categories/ (CategoryListView), one request at a time
CategoryCreate(actor, name) ==
    /\ Step
    /\ IF actor = Anonymous
       THEN Fail("category_create", actor, NoListing, "NotAuthenticated")
       ELSE IF unique_name(categories, name)
       THEN Fail("category_create", actor, NoListing, "ValidationError")
       ELSE /\ categories' = categories \cup {name}
            /\ last' = Outcome("category_create", actor, NoListing, "Created")
            /\ UNCHANGED <<users, listings, next_listing_id, reviews, next_review_id>>

\* POST /listings/ (ListingListCreateView.create, perform_create)
ListingCreate(actor, minN, maxN) ==
    /\ Step
    /\ IF actor = Anonymous
       THEN Fail("listing_create", actor, NoListing, "NotAuthenticated")
       ELSE IF ~MaximumNightsValid(minN, maxN)
       THEN Fail("listing_create", actor, NoListing, "ValidationError")
       ELSE /\ next_listing_id \in ListingIds
            /\ listings' = [x \in DOMAIN listings \cup {next_listing_id} |->
                              IF x = next_listing_id
                              THEN NewListing(actor, minN, maxN)
                              ELSE listings[x]]
            /\ next_listing_id' = next_listing_id + 1
            /\ last' = Outcome("listing_create", actor, next_listing_id, "Created")
            /\ UNCHANGED <<users, reviews, next_review_id, categories>>

\* PUT/PATCH /listings/{l}/ (ListingDetailView.update, perform_update).
\* minimum_nights and maximum_nights are optional in both methods.
ListingUpdate(actor, l, minN, maxN) ==
    /\ Step
    /\ IF actor = Anonymous
       THEN Fail("listing_update", actor, l, "NotAuthenticated")
       ELSE IF l \notin ActiveQueryset(listings)
       THEN Fail("listing_update", actor, l, "NotFound")
       ELSE IF ~MaximumNightsValid(minN, maxN)
       THEN Fail("listing_update", actor, l, "ValidationError")
       ELSE IF UpdateNotHost(listings, l, actor)
       THEN Fail("listing_update", actor, l, "UnhandledPermissionError")
       ELSE /\ listings' = [listings EXCEPT ![l] = ApplyUpdate(@, minN, maxN)]
            /\ last' = Outcome("listing_update", actor, l, "OK")
            /\ UNCHANGED <<users, next_listing_id, reviews, next_review_id, categories>>

\* DELETE /listings/{l}/ (ListingDetailView.destroy, perform_destroy)
ListingDestroy(actor, l) ==
    /\ Step
    /\ IF actor = Anonymous
       THEN Fail("listing_destroy", actor, l, "NotAuthenticated")
       ELSE IF l \notin ActiveQueryset(listings)
       THEN Fail("listing_destroy", actor, l, "NotFound")
       ELSE IF DestroyNotHost(listings, l, actor)
       THEN Fail("listing_destroy", actor, l, "UnhandledPermissionError")
       ELSE /\ listings' = SoftDelete(listings, l)
            /\ last' = Outcome("listing_destroy", actor, l, "NoContent")
            /\ UNCHANGED <<users, next_listing_id, reviews, next_review_id, categories>>

\* POST /listings/{l}/reviews/ (ListingReviewListCreateView.create,
\* perform_create, Review.save, Listing.update_rating)
ReviewCreate(actor, l, rating) ==
    /\ Step
    /\ IF actor = Anonymous
       THEN Fail("review_create", actor, l, "NotAuthenticated")
       ELSE IF rating \notin ValidRatings
       THEN Fail("review_create", actor, l, "ValidationError")
       ELSE IF l \notin DOMAIN listings
       THEN Fail("review_create", actor, l, "NotFound")
       ELSE IF unique_together(reviews, l, actor)
       THEN Fail("review_create", actor, l, "UnhandledIntegrityError")
       ELSE /\ reviews' = InsertReview(reviews, next_review_id, l, actor, rating)
            /\ next_review_id' = next_review_id + 1
            /\ listings' = update_rating(listings, reviews', l)
            /\ last' = Outcome("review_create", actor, l, "Created")
            /\ UNCHANGED <<users, next_listing_id, categories>>

\* ---------------------------------------------- model-level operations

\* Review.save() of an existing row with a new rating
ReviewUpdate(r, rating) ==
    /\ Step
    /\ r \in reviews
    /\ reviews' = UpdateReview(reviews, r, rating)
    /\ listings' = update_rating(listings, reviews', r.listing)
    /\ last' = Outcome("review_update", r.reviewer, r.listing, "Saved")
    /\ UNCHANGED <<users, next_listing_id, next_review_id, categories>>

\* Listing.update_rating() called on its own
UpdateRating(l) ==
    /\ Step
    /\ l \in DOMAIN listings
    /\ listings' = update_rating(listings, reviews, l)
    /\ last' = Outcome("update_rating", Anonymous, l, "Done")
    /\ UNCHANGED <<users, next_listing_id, reviews, next_review_id, categories>>

\* User.delete(): Listing.host, Review.listing and Review.reviewer are
\* on_delete=CASCADE; no Review.save() and no update_rating() runs
DeleteUser(u) ==
    /\ Step
    /\ u \in users
    /\ users' = users \ {u}
    /\ LET kept == {l \in DOMAIN listings : listings[l].host # u}
       IN  /\ listings' = [l \in kept |-> listings[l]]
           /\ reviews' = {r \in reviews : r.reviewer # u /\ r.listing \in kept}
    /\ last' = Outcome("delete_user", u, NoListing, "Done")
    /\ UNCHANGED <<next_listing_id, next_review_id, categories>>

Actors == users \cup {Anonymous}

Next ==
    \/ \E a \in Actors, c \in CategoryNames : CategoryCreate(a, c)
    \/ \E a \in Actors, mn \in NightsInputs, mx \in NightsInputs : ListingCreate(a, mn, mx)
    \/ \E a \in Actors, l \in ListingIds, mn \in NightsInputs, mx \in NightsInputs :
          ListingUpdate(a, l, mn, mx)
    \/ \E a \in Actors, l \in ListingIds : ListingDestroy(a, l)
    \/ \E a \in Actors, l \in ListingIds, s \in RatingInputs : ReviewCreate(a, l, s)
    \/ \E r \in reviews, s \in SampleRatings : ReviewUpdate(r, s)
    \/ \E l \in ListingIds : UpdateRating(l)
    \/ \E u \in Users : DeleteUser(u)

Spec == Init /\ [][Next]_vars

\* ---------------------------------------------- concurrent requests

\* the listing the concurrent requests are for
ConcListing == 1

\* One listing exists; MaxRequests requests for it arrive together.
InitConc ==
    /\ users = Users
    /\ \E h \in Users :
          listings = [l \in {ConcListing} |-> NewListing(h, Absent, Absent)]
    /\ next_listing_id = ConcListing + 1
    /\ reviews = {}
    /\ next_review_id = 1
    /\ categories = {}
    /\ last = Outcome("none", Anonymous, NoListing, "none")
    /\ ops = 0
    /\ pc = [k \in Requests |-> "start"]
    /\ local = [k \in Requests |-> NoRequest]

ConcFrame == UNCHANGED <<users, next_listing_id, last, ops>>

\* the request ends with response resp
Finish(k, req, resp) ==
    /\ pc' = [pc EXCEPT ![k] = "done"]
    /\ local' = [local EXCEPT ![k] = [req EXCEPT !.resp = resp]]

\* the request goes on at position at
Goto(k, req, at) ==
    /\ pc' = [pc EXCEPT ![k] = at]
    /\ local' = [local EXCEPT ![k] = req]

\* POST /listings/1/reviews/ by u, up to Review.save's super().save():
\* the INSERT (its own transaction)
SubmitInsert(k, u, rating) ==
    /\ pc[k] = "start"
    /\ LET req == [NoRequest EXCEPT !.kind = "review", !.actor = u]
       IN  IF unique_together(reviews, ConcListing, u)
           THEN /\ Finish(k, req, "UnhandledIntegrityError")
                /\ UNCHANGED <<reviews, next_review_id>>
           ELSE /\ reviews' = InsertReview(reviews, next_review_id, ConcListing, u, rating)
                /\ next_review_id' = next_review_id + 1
                /\ Goto(k, req, "avg")
    /\ UNCHANGED <<listings, categories>>
    /\ ConcFrame

\* update_rating: avg_rating = self.reviews.aggregate(Avg('rating'))
SubmitReadAvg(k) ==
    /\ pc[k] = "avg"
    /\ LET req == [local[k] EXCEPT !.avg = AvgRating(reviews, ConcListing)]
       IN  IF Truthy(req.avg)
           THEN Goto(k, req, "count")
           ELSE Finish(k, req, "Created")
    /\ UNCHANGED <<listings, reviews, next_review_id, categories>>
    /\ ConcFrame

\* update_rating: self.total_reviews = self.reviews.count()
SubmitReadCount(k) ==
    /\ pc[k] = "count"
    /\ Goto(k, [local[k] EXCEPT !.count = CountReviews(reviews, ConcListing)], "write")
    /\ UNCHANGED <<listings, reviews, next_review_id, categories>>
    /\ ConcFrame

\* update_rating: self.save(update_fields=['rating', 'total_reviews'])
SubmitWrite(k) ==
    /\ pc[k] = "write"
    /\ listings' = SaveRating(listings, ConcListing, Round2(local[k].avg), local[k].count)
    /\ Finish(k, local[k], "Created")
    /\ UNCHANGED <<reviews, next_review_id, categories>>
    /\ ConcFrame

\* PUT/PATCH /listings/1/ by u, UpdateModelMixin.update up to is_valid:
\* instance = self.get_object() reads the row, the serializer validates
UpdateGet(k, u, minN, maxN) ==
    /\ pc[k] = "start"
    /\ LET req == [NoRequest EXCEPT !.kind = "update", !.actor = u,
                                    !.minN = minN, !.maxN = maxN]
       IN  IF ConcListing \notin ActiveQueryset(listings)
           THEN Finish(k, req, "NotFound")
           ELSE IF ~MaximumNightsValid(minN, maxN)
           THEN Finish(k, [req EXCEPT !.row = listings[ConcListing]], "ValidationError")
           ELSE Goto(k, [req EXCEPT !.row = listings[ConcListing]], "check")
    /\ UNCHANGED <<listings, reviews, next_review_id, categories>>
    /\ ConcFrame

\* perform_update: self.get_object() reads the row again for the host check
UpdateCheck(k) ==
    /\ pc[k] = "check"
    /\ IF ConcListing \notin ActiveQueryset(listings)
       THEN Finish(k, local[k], "NotFound")
       ELSE IF UpdateNotHost(listings, ConcListing, local[k].actor)
       THEN Finish(k, local[k], "UnhandledPermissionError")
       ELSE Goto(k, local[k], "save")
    /\ UNCHANGED <<listings, reviews, next_review_id, categories>>
    /\ ConcFrame

\* perform_update: serializer.save() sets the supplied fields on the
\* instance read by UpdateGet and saves every field of it
UpdateSave(k) ==
    /\ pc[k] = "save"
    /\ listings' = [listings EXCEPT ![ConcListing] =
                       ApplyUpdate(local[k].row, local[k].minN, local[k].maxN)]
    /\ Finish(k, local[k], "OK")
    /\ UNCHANGED <<reviews, next_review_id, categories>>
    /\ ConcFrame

\* DELETE /listings/1/ by u, DestroyModelMixin.destroy:
\* instance = self.get_object() reads the row
DestroyGet(k, u) ==
    /\ pc[k] = "start"
    /\ LET req == [NoRequest EXCEPT !.kind = "destroy", !.actor = u]
       IN  IF ConcListing \notin ActiveQueryset(listings)
           THEN Finish(k, req, "NotFound")
           ELSE Goto(k, [req EXCEPT !.row = listings[ConcListing]], "destroy")
    /\ UNCHANGED <<listings, reviews, next_review_id, categories>>
    /\ ConcFrame

\* perform_destroy(instance): the host check on the instance read by
\* DestroyGet, then is_active = False and a save of every field of it
DestroySave(k) ==
    /\ pc[k] = "destroy"
    /\ LET read == [l \in {ConcListing} |-> local[k].row]
       IN  IF DestroyNotHost(read, ConcListing, local[k].actor)
           THEN /\ Finish(k, local[k], "UnhandledPermissionError")
                /\ UNCHANGED listings
           ELSE /\ listings' = [listings EXCEPT ![ConcListing] =
                                   SoftDelete(read, ConcListing)[ConcListing]]
                /\ Finish(k, local[k], "NoContent")
    /\ UNCHANGED <<reviews, next_review_id, categories>>
    /\ ConcFrame

\* POST /categories/ by u, CreateModelMixin.create up to is_valid: the
\* UniqueValidator on name runs its SELECT
CategoryValidate(k, u, name) ==
    /\ pc[k] = "start"
    /\ LET req == [NoRequest EXCEPT !.kind = "category", !.actor = u, !.name = name]
       IN  IF unique_name(categories, name)
           THEN Finish(k, req, "ValidationError")
           ELSE Goto(k, req, "insert")
    /\ UNCHANGED <<listings, reviews, next_review_id, categories>>
    /\ ConcFrame

\* perform_create: serializer.save() runs the INSERT; the unique constraint
\* on name rejects it when the name was inserted since the validation
CategoryInsert(k) ==
    /\ pc[k] = "insert"
    /\ IF unique_name(categories, local[k].name)
       THEN /\ Finish(k, local[k], "UnhandledIntegrityError")
            /\ UNCHANGED categories
       ELSE /\ categories' = categories \cup {local[k].name}
            /\ Finish(k, local[k], "Created")
    /\ UNCHANGED <<listings, reviews, next_review_id>>
    /\ ConcFrame

NextConc ==
    \/ \E k \in Requests, u \in Users, c \in CategoryNames : CategoryValidate(k, u, c)
    \/ \E k \in Requests : CategoryInsert(k)
    \/ \E k \in Requests, u \in Users, s \in SampleRatings : SubmitInsert(k, u, s)
    \/ \E k \in Requests : SubmitReadAvg(k)
    \/ \E k \in Requests : SubmitReadCount(k)
    \/ \E k \in Requests : SubmitWrite(k)
    \/ \E k \in Requests, u \in Users, mn \in NightsInputs, mx \in NightsInputs :
          UpdateGet(k, u, mn, mx)
    \/ \E k \in Requests : UpdateCheck(k)
    \/ \E k \in Requests : UpdateSave(k)
    \/ \E k \in Requests, u \in Users : DestroyGet(k, u)
    \/ \E k \in Requests : DestroySave(k)

SpecConc == InitConc /\ [][NextConc]_vars

\* ------------------------------------------------------------ claims

Abs(x) == IF x < 0 THEN -x ELSE x

\* r (in hundredths) is the mean of the ratings of revs to 2 decimal places
IsRoundedMean(r, revs) ==
    /\ revs # {}
    /\ 2 * Abs(100 * SumRatings(revs) - r * Cardinality(revs)) <= Cardinality(revs)

\* rating and total_reviews of listing l are what a recomputation over its
\* current Reviews gives (0 and 0 when it has none)
Consistent(l) ==
    /\ listings[l].total_reviews = Cardinality(ReviewsOf(reviews, l))
    /\ IF ReviewsOf(reviews, l) = {}
       THEN listings[l].rating = 0
       ELSE IsRoundedMean(listings[l].rating, ReviewsOf(reviews, l))

ReviewSaved ==
    \/ last.op = "review_create" /\ last.resp = "Created"
    \/ last.op = "review_update" /\ last.resp = "Saved"

\* C1: right after a successful Review create or update on listing L,
\* L.rating is the mean of the ratings of L's Reviews rounded to 2 decimal
\* places and L.total_reviews is the number of L's Reviews.
C1_RatingAfterReviewSave ==
    ReviewSaved =>
        /\ last.listing \in DOMAIN listings
        /\ IsRoundedMean(listings[last.listing].rating, ReviewsOf(reviews, last.listing))
        /\ listings[last.listing].total_reviews =
               Cardinality(ReviewsOf(reviews, last.listing))

\* the scenario of C1: ratings 4 then 2 by two reviewers give 3.00 and 2
C1_Witness ==
    /\ last.op = "review_create" /\ last.resp = "Created"
    /\ {r.rating : r \in ReviewsOf(reviews, last.listing)} = {2, 4}
    /\ \E r \in reviews : /\ r.listing = last.listing /\ r.reviewer = last.actor
                          /\ r.rating = 2
    /\ listings[last.listing].rating = 300
    /\ listings[last.listing].total_reviews = 2

\* every request in flight was a review submission, and all have completed
AllReviewsDone == \A k \in Requests : pc[k] = "done" /\ local[k].kind = "review"

\* C2: once all concurrent review submissions for a listing have completed,
\* its total_reviews is not less than the number of Reviews stored for it.
C2_NoUndercount ==
    AllReviewsDone =>
        listings[ConcListing].total_reviews >= CountReviews(reviews, ConcListing)

\* C3: every stored listing has minimum_nights <= maximum_nights.
C3_NightsOrdered ==
    \A l \in DOMAIN listings : listings[l].minimum_nights <= listings[l].maximum_nights

\* C4: in every reachable state each listing's rating and total_reviews
\* equal the recomputation over the Reviews currently attached to it.
C4_DerivedFieldsConsistent ==
    \A l \in DOMAIN listings : Consistent(l)

\* C5: an authenticated non-host who attempts PUT/PATCH or DELETE on an
\* active listing receives PermissionDenied; only the host succeeds.
C5_NonHostPermissionDenied ==
    (/\ last.op \in {"listing_update", "listing_destroy"}
     /\ last.listing \in DOMAIN listings)
    => /\ (/\ last.actor # Anonymous
           /\ last.actor # listings[last.listing].host
           /\ listings[last.listing].is_active) => last.resp = "PermissionDenied"
       /\ last.resp \in {"OK", "NoContent"} => last.actor = listings[last.listing].host

\* C6: a PUT/PATCH or DELETE attempt on a listing by anyone but its host
\* (authenticated or not) changes no listing, no review and no category.
C6_NonHostAttemptChangesNothing ==
    [][(/\ last'.op \in {"listing_update", "listing_destroy"}
        /\ last'.listing \in DOMAIN listings
        /\ last'.actor # listings[last'.listing].host)
       => (/\ listings' = listings
           /\ reviews' = reviews
           /\ categories' = categories
           /\ users' = users)]_vars

\* an authenticated non-host attempted to modify an active listing
C6_Witness ==
    /\ last.op \in {"listing_update", "listing_destroy"}
    /\ last.listing \in DOMAIN listings
    /\ last.actor \in users
    /\ last.actor # listings[last.listing].host
    /\ listings[last.listing].is_active
    /\ last.resp = "UnhandledPermissionError"

\* C7: a successful DELETE by the host keeps the listing row with
\* is_active = false, removes it from GET /listings/ and makes
\* GET /listings/{id}/ NotFound, and every Review it had still exists and
\* is returned by GET /listings/{id}/reviews/.
C7_SoftDeleteKeepsRecord ==
    [][(last'.op = "listing_destroy" /\ last'.resp = "NoContent")
       => (/\ last'.actor = listings[last'.listing].host
           /\ last'.listing \in DOMAIN listings'
           /\ ~listings'[last'.listing].is_active
           /\ last'.listing \notin ListView(listings')
           /\ DetailView(listings', last'.listing) = "NotFound"
           /\ ReviewsOf(reviews, last'.listing) \subseteq reviews'
           /\ ReviewListView(reviews', last'.listing) = ReviewsOf(reviews, last'.listing))]_vars

\* the host soft-deleted a listing that has a review
C7_Witness ==
    /\ last.op = "listing_destroy" /\ last.resp = "NoContent"
    /\ ~listings[last.listing].is_active
    /\ ReviewListView(reviews, last.listing) # {}

UniquePairs(revs) ==
    \A r1 \in revs, r2 \in revs :
        (r1.listing = r2.listing /\ r1.reviewer = r2.reviewer) => r1 = r2

\* C8: there is at most one Review per (listing, reviewer); a second
\* submission by the same user for the same listing fails, adds no Review
\* and leaves the listing's rating and total_reviews unchanged.
C8_OneReviewPerPair ==
    [][/\ UniquePairs(reviews')
       /\ (/\ last'.op = "review_create"
           /\ \E r \in reviews : r.listing = last'.listing /\ r.reviewer = last'.actor)
          => (/\ last'.resp # "Created"
              /\ reviews' = reviews
              /\ listings' = listings)]_vars

\* a second valid submission for the same pair was refused by the store
C8_Witness ==
    /\ last.op = "review_create"
    /\ last.resp = "UnhandledIntegrityError"
    /\ \E r \in reviews : r.listing = last.listing /\ r.reviewer = last.actor

\* C9: update_rating, invoked on a listing that has no Reviews (whatever
\* its stored rating and total_reviews are), sets rating to 0 and
\* total_reviews to 0.
C9_RecomputeWithoutReviews ==
    \A l \in DOMAIN listings :
        ReviewsOf(reviews, l) = {}
        => (/\ update_rating(listings, reviews, l)[l].rating = 0
            /\ update_rating(listings, reviews, l)[l].total_reviews = 0)

\* a request that reaches the listing while it is inactive
ArrivesOnInactive(k) ==
    /\ pc[k] = "start" /\ pc'[k] # "start"
    /\ local'[k].kind \in {"update", "destroy"}
    /\ ~listings[ConcListing].is_active

\* C10: soft delete is irreversible through the API and the host is fixed
\* at creation: once is_active is false it stays false, the host of a
\* listing never changes, and a PUT/PATCH/DELETE that arrives on an
\* inactive listing returns NotFound and changes nothing.
C10_SoftDeleteIrreversible ==
    [][/\ \A l \in DOMAIN listings \cap DOMAIN listings' :
             /\ listings'[l].host = listings[l].host
             /\ ~listings[l].is_active => ~listings'[l].is_active
       /\ \A k \in Requests :
             ArrivesOnInactive(k) => (/\ local'[k].resp = "NotFound"
                                      /\ listings' = listings
                                      /\ reviews' = reviews)]_vars

====
